---- MODULE Spec2Model ----
(***************************************************************************)
(* Guest boot path of the x86 VMM: ELF loading, kernel relocation, boot    *)
(* structures (command line, boot_params, e820 map) and the initial VCPU   *)
(* state (boot_guest.c).                                                   *)
(*                                                                         *)
(* Numbers.  The code computes with uint32_t / uintptr_t / int (32 bit)    *)
(* and uint64_t (struct e820entry).  A number n is held as the pair        *)
(* <<hi, lo>> with n = hi * 2^16 + lo and 0 <= lo < 2^16; hi is any        *)
(* integer, so negative numbers and 2^32 itself are exact.  0x00100010 is  *)
(* <<16, 16>>, 2^32 is <<65536, 0>>, -1 is <<-1, 65535>>.                  *)
(***************************************************************************)
EXTENDS Integers, Sequences, FiniteSets, TLC

Base == 2^16

Norm(h, l) == <<h + (l \div Base), l % Base>>
N(n) == Norm(0, n)
Zero == <<0, 0>>
Add(a, b) == Norm(a[1] + b[1], a[2] + b[2])
Sub(a, b) == Norm(a[1] - b[1], a[2] - b[2])
Lt(a, b) == a[1] < b[1] \/ (a[1] = b[1] /\ a[2] < b[2])
Le(a, b) == a = b \/ Lt(a, b)
Neg(a) == Sub(Zero, a)

\* Conversion to uint32_t / uintptr_t: the value modulo 2^32.
U32(a) == <<a[1] % Base, a[2]>>
\* Conversion to int: the value modulo 2^32, read as two's complement.
I32(a) == IF (a[1] % Base) >= Base \div 2 THEN <<(a[1] % Base) - Base, a[2]>>
          ELSE <<a[1] % Base, a[2]>>
\* 0x100000000ull
Two32 == <<Base, 0>>
\* 0xFFFFFFFF
UINT32_MAX == <<Base - 1, Base - 1>>

Last(s) == s[Len(s)]
SetLast(s, x) == [s EXCEPT ![Len(s)] = x]

(***************************************************************************)
(* State.                                                                  *)
(***************************************************************************)
VARIABLES
    pc,           \* position of the boot sequence
    ram_regions,  \* vm->mem.ram_regions[0 .. num_ram_regions-1], {start, size}
    e820_out,     \* what make_guest_e820_map produced
    elf,          \* the guest ELF file: exists, valid, entry, phdrs, size
    env,          \* what the collaborators answer: free_start, alignment
    guest_image,  \* vm->arch.guest_image
    guest_mem,    \* guest-physical bytes written so far (address -> byte)
    mem_fill,     \* the byte every guest address held before the sequence
    ld,           \* locals of vmm_load_guest_elf / vmm_load_guest_segment
    ram_marked,   \* calls of guest_ram_mark_allocated, in order
    events,       \* files opened, errors reported
    ret,          \* value returned by the last operation that returned
    fatal,        \* why the process was aborted ("none" while it runs)
    host,         \* host-side resources held: cap slots, duplicated caps, mappings
    relocs,       \* the relocation-table file: exists, lead, words
    rel,          \* locals of vmm_plat_guest_elf_relocate
    cmdline,      \* the command-line buffer handed to the boot-structure builder
    module,       \* the boot module file: exists, size
    allocs,       \* calls of guest_ram_allocate: size asked, address answered
    boot_block,   \* the struct boot_params written to guest memory, and where
    regs          \* the VCPU's user context and instruction pointer

relocVars == <<relocs, rel>>
bootVars == <<cmdline, module, allocs, boot_block, regs>>

vars == <<pc, ram_regions, e820_out, elf, env, guest_image, guest_mem, mem_fill,
          ld, ram_marked, events, ret, fatal, host, relocVars, bootVars>>

(***************************************************************************)
(* make_guest_e820_map.                                                    *)
(***************************************************************************)
E820_RAM == "E820_RAM"
E820_RESERVED == "E820_RESERVED"
\* size of boot_params.e820_map
E820MAX == 128

\* One iteration of the loop over the RAM regions.  st.e820 holds
\* e820[0..entry] (entry = Len - 1); st.abort is set when an assert fails.
E820Iter(st, r) ==
    LET e0 == st.e820
        cur == Last(e0)
    IN  IF st.abort THEN st
        ELSE IF Add(cur.addr, cur.size) # r.start
        THEN
            \* Finish region. Unless it was zero sized
            LET fin == cur.size # Zero
                ovf1 == fin /\ Len(e0) >= E820MAX
                e1 == IF fin
                      THEN Append(e0, [addr |-> Add(cur.addr, cur.size),
                                       size |-> Zero, type |-> E820_RESERVED])
                      ELSE e0
                \* Pad region
                e2 == SetLast(e1, [Last(e1) EXCEPT
                                     !.size = Sub(r.start, Last(e1).addr)])
                ovf2 == Len(e2) >= E820MAX
                \* Now start a new RAM region
                e3 == Append(e2, [addr |-> r.start, size |-> Zero,
                                  type |-> E820_RAM])
                \* Increase region to size
                e4 == SetLast(e3, [Last(e3) EXCEPT
                         !.size = Add(Sub(r.start, Last(e3).addr), r.size)])
            IN  IF ovf1 THEN [e820 |-> e0, abort |-> TRUE]
                ELSE IF ovf2 THEN [e820 |-> e2, abort |-> TRUE]
                ELSE [e820 |-> e4, abort |-> FALSE]
        ELSE
            [e820 |-> SetLast(e0, [cur EXCEPT
                         !.size = Add(Sub(r.start, cur.addr), r.size)]),
             abort |-> FALSE]

RECURSIVE E820Loop(_, _, _)
E820Loop(st, regions, i) ==
    IF i > Len(regions) THEN st
    ELSE E820Loop(E820Iter(st, regions[i]), regions, i + 1)

\* The whole function: the entries written, the value returned (n) and
\* whether an assert stopped it (abort; nothing is returned then).
make_guest_e820_map(regions) ==
    LET init == [e820 |-> <<[addr |-> Zero, size |-> Zero,
                             type |-> E820_RESERVED]>>,
                 abort |-> Len(regions) = 0]
        st == E820Loop(init, regions, 1)
        e == st.e820
        \* Create empty region at the end
        ovf == Len(e) >= E820MAX
        endaddr == Add(Last(e).addr, Last(e).size)
        fin == Append(e, [addr |-> endaddr, size |-> Sub(Two32, endaddr),
                          type |-> E820_RESERVED])
        \* assert(e820[i].addr < e820[i].addr + e820[i].size)
        bad == \E i \in 1..Len(fin) :
                  ~Lt(fin[i].addr, Add(fin[i].addr, fin[i].size))
    IN  IF st.abort THEN [e820 |-> e, n |-> 0, abort |-> TRUE]
        ELSE IF ovf THEN [e820 |-> e, n |-> 0, abort |-> TRUE]
        ELSE IF bad THEN [e820 |-> fin, n |-> 0, abort |-> TRUE]
        ELSE [e820 |-> fin, n |-> Len(fin), abort |-> FALSE]

(***************************************************************************)
(* Inputs of the memory-map construction: sorted, non-overlapping region   *)
(* lists within [0, 2^32), as the region tracker keeps them.               *)
(***************************************************************************)
MaxRegions == 3

\* 0, 0x100000, 0x200000, 0x300000, 2^32 - 0x100000, 2^32
E820Points == {<<0, 0>>, <<16, 0>>, <<32, 0>>, <<48, 0>>,
               <<Base - 16, 0>>, Two32}

E820Regions == {r \in [start : E820Points \ {Two32}, size : {Sub(q, p) : p, q \in E820Points}] :
                   /\ Le(Zero, r.size)
                   /\ Add(r.start, r.size) \in E820Points}

RegionEnd(r) == Add(r.start, r.size)

SortedDisjoint(rs) ==
    \A i \in 1..(Len(rs) - 1) : Le(RegionEnd(rs[i]), rs[i + 1].start)

RegionLists ==
    UNION {{rs \in [1..n -> E820Regions] : SortedDisjoint(rs)} : n \in 1..MaxRegions}

(***************************************************************************)
(* Claims about the memory map.                                            *)
(***************************************************************************)
EntryEnd(e) == Add(e.addr, e.size)
InEntry(p, e) == Le(e.addr, p) /\ Lt(p, EntryEnd(e))
InRegion(p, r) == Le(r.start, p) /\ Lt(p, RegionEnd(r))

\* Every interval here has its ends among these points, so two unions of
\* intervals are equal iff they agree at each of these points.
E820Cuts(map, rs) ==
    {Zero} \cup {map[i].addr : i \in 1..Len(map)}
           \cup {EntryEnd(map[i]) : i \in 1..Len(map)}
           \cup {rs[i].start : i \in 1..Len(rs)}
           \cup {RegionEnd(rs[i]) : i \in 1..Len(rs)}

RamUnionMatches(map, rs) ==
    \A p \in E820Cuts(map, rs) :
        (\E i \in 1..Len(map) : map[i].type = E820_RAM /\ InEntry(p, map[i]))
        <=> (\E i \in 1..Len(rs) : InRegion(p, rs[i]))

E820Partition(map) ==
    /\ map[1].addr = Zero
    /\ EntryEnd(Last(map)) = Two32
    /\ \A i \in 1..(Len(map) - 1) : EntryEnd(map[i]) = map[i + 1].addr

\* [0x100000, 0x200000)
E820ExampleInput == <<[start |-> <<16, 0>>, size |-> <<16, 0>>]>>
E820ExampleMap ==
    <<[addr |-> <<0, 0>>, size |-> <<16, 0>>, type |-> E820_RESERVED],
      [addr |-> <<16, 0>>, size |-> <<16, 0>>, type |-> E820_RAM],
      [addr |-> <<32, 0>>, size |-> <<Base - 32, 0>>, type |-> E820_RESERVED]>>

NonEmptyRegions(rs) == \A i \in 1..Len(rs) : rs[i].size # Zero

\* C1: for every non-empty, sorted, non-overlapping list of (non-empty) RAM
\* regions within [0, 2^32), the returned map starts at 0, ends at 2^32, has
\* consecutive entries abutting, and its RAM entries cover exactly the input
\* regions, also when the first region starts at 0; the region
\* [0x100000, 0x200000) gives the three-entry map of the example.
C1_E820MapLossless ==
    (pc = "e820_done" /\ NonEmptyRegions(ram_regions)) =>
        /\ E820Partition(e820_out.e820)
        /\ RamUnionMatches(e820_out.e820, ram_regions)
        /\ (ram_regions = E820ExampleInput => e820_out.e820 = E820ExampleMap)

\* The same statement for lists whose first region does not start at 0.
E820LosslessAwayFromZero ==
    (pc = "e820_done" /\ NonEmptyRegions(ram_regions)
        /\ ram_regions[1].start # Zero) =>
        /\ E820Partition(e820_out.e820)
        /\ RamUnionMatches(e820_out.e820, ram_regions)
        /\ (ram_regions = E820ExampleInput => e820_out.e820 = E820ExampleMap)

(***************************************************************************)
(* Guest memory.  The code reaches guest memory only through host mappings *)
(* of guest pages; guest_mem records the bytes written, every other        *)
(* address still holds mem_fill.                                           *)
(***************************************************************************)
\* vm->mem.page_size: log2 of the guest page size
PageBits == 3
PageSize == 2^PageBits

MemByte(m, a) == IF a \in DOMAIN m THEN m[a] ELSE mem_fill

\* memcpy/fread/memset of the bytes data[1..Len] to guest-physical a, a+1, ...
MemWrite(m, a, data) ==
    LET new == {U32(Add(a, N(k - 1))) : k \in 1..Len(data)}
    IN  [x \in (DOMAIN m) \cup new |->
            IF x \in new
            THEN data[CHOOSE k \in 1..Len(data) : U32(Add(a, N(k - 1))) = x]
            ELSE m[x]]

Zeros(n) == [k \in 1..n |-> 0]

(***************************************************************************)
(* The ELF file.  A program header is                                      *)
(* [type, offset, paddr, vaddr, filesz, memsz]; the file holds elf.size    *)
(* bytes and byte o of it is ElfByte(o).                                   *)
(***************************************************************************)
PT_LOAD == "PT_LOAD"
PT_NOTE == "PT_NOTE"

ElfByte(o) == 1 + (o % 200)
ElfBytes(o, n) == [k \in 1..n |-> ElfByte(o + k - 1)]

\* n % b for an alignment b that is below 2^15 or a multiple of 2^16
Mod(n, b) ==
    IF b[1] = 0 THEN N((((n[1] % b[2]) * (Base % b[2])) + n[2]) % b[2])
    ELSE <<n[1] % b[1], n[2]>>

\* ROUND_UP(n, b) on a uintptr_t
ROUND_UP(n, b) ==
    IF Mod(n, b) = Zero THEN n ELSE U32(Add(n, Sub(b, Mod(n, b))))

Min(a, b) == IF Lt(a, b) THEN a ELSE b

\* Lines 507-521: the lowest paddr / vaddr over the PT_LOAD headers.
RECURSIVE MinOverLoad(_, _, _, _)
MinOverLoad(phdrs, field, acc, i) ==
    IF i > Len(phdrs) THEN acc
    ELSE MinOverLoad(phdrs, field,
                     IF phdrs[i].type # PT_LOAD THEN acc
                     ELSE IF Lt(phdrs[i][field], acc) THEN phdrs[i][field]
                     ELSE acc,
                     i + 1)

\* Line 526: (int)((int64_t)load_addr - (int64_t)guest_kernel_addr)
RelocationOffset(load_addr, guest_kernel_addr) ==
    I32(Sub(load_addr, guest_kernel_addr))

ImageZero ==
    [load_paddr |-> Zero, link_paddr |-> Zero, link_vaddr |-> Zero,
     relocation_offset |-> Zero, alignment |-> Zero, entry |-> Zero,
     cmd_line |-> Zero, cmd_line_len |-> Zero, boot_info |-> Zero,
     boot_module_paddr |-> Zero, boot_module_size |-> Zero]

LdIdle ==
    [load_addr |-> Zero, guest_kernel_addr |-> Zero, guest_kernel_vaddr |-> Zero,
     guest_relocation_offset |-> Zero, i |-> 0,
     source_offset |-> 0, dest_addr |-> Zero, segment_size |-> 0,
     current |-> 0, remain |-> 0, seg_dest |-> Zero]

\* Host-side resources of vmm_load_guest_segment: cap slots allocated by
\* vka_cspace_alloc_path and not freed, caps copied into dup_slot and not
\* deleted, guest pages mapped into the host vspace and not unmapped, and the
\* most pages that were mapped at one time.
HostIdle == [slots |-> 0, dup_caps |-> 0, mapped |-> 0, peak_mapped |-> 0]
\* Line 429: vka_cnode_copy(&dup_slot, &cap_path, seL4_AllRights)
CapCopied(h) == [h EXCEPT !.dup_caps = h.dup_caps + 1]
\* Line 430: vspace_map_pages of one page
PageMapped(h) ==
    [h EXCEPT !.mapped = h.mapped + 1,
              !.peak_mapped = IF h.mapped + 1 > h.peak_mapped
                              THEN h.mapped + 1 ELSE h.peak_mapped]
\* Line 466: vspace_unmap_pages
PageUnmapped(h) == [h EXCEPT !.mapped = h.mapped - 1]
\* Line 467: vka_cnode_delete(&dup_slot)
CapDeleted(h) == [h EXCEPT !.dup_caps = h.dup_caps - 1]

\* vmm_load_guest_elf, lines 486-530: open, read the headers, pick the load
\* address and compute the relocation offset.
LoadElfOpen ==
    /\ pc = "start"
    /\ IF ~elf.exists
       THEN /\ events' = events \cup {"fopen elf", "error: guest elf not found"}
            /\ ret' = -1
            /\ pc' = "elf_failed"
            /\ UNCHANGED ld
       ELSE IF ~elf.valid
       THEN /\ events' = events \cup {"fopen elf", "error: guest elf invalid"}
            /\ ret' = -1
            /\ pc' = "elf_failed"
            /\ UNCHANGED ld
       ELSE LET load_addr == ROUND_UP(env.free_start, env.alignment)
                kaddr == MinOverLoad(elf.phdrs, "paddr", UINT32_MAX, 1)
                kvaddr == MinOverLoad(elf.phdrs, "vaddr", UINT32_MAX, 1)
            IN  /\ events' = events \cup {"fopen elf"}
                /\ ld' = [LdIdle EXCEPT
                            !.load_addr = load_addr,
                            !.guest_kernel_addr = kaddr,
                            !.guest_kernel_vaddr = kvaddr,
                            !.guest_relocation_offset =
                                RelocationOffset(load_addr, kaddr)]
                /\ pc' = "elf_headers"
                /\ UNCHANGED ret
    /\ UNCHANGED <<host, ram_regions, e820_out, elf, env, guest_image, guest_mem,
                   mem_fill, ram_marked, fatal,
                   relocVars, bootVars>>

\* Lines 532-552: a header that is not PT_LOAD, or has no memory size.
LoadElfSkipHeader ==
    /\ pc = "elf_headers"
    /\ ld.i < Len(elf.phdrs)
    /\ LET h == elf.phdrs[ld.i + 1]
       IN  h.type # PT_LOAD \/ h.memsz = 0
    /\ ld' = [ld EXCEPT !.i = ld.i + 1]
    /\ UNCHANGED <<host, pc, ram_regions, e820_out, elf, env, guest_image, guest_mem,
                   mem_fill, ram_marked, events, ret, fatal,
                   relocVars, bootVars>>

\* Lines 541-555 and 401-417: enter vmm_load_guest_segment for header i.
\* slot_ok: does vka_cspace_alloc_path succeed.
LoadSegmentBegin ==
    /\ pc = "elf_headers"
    /\ ld.i < Len(elf.phdrs)
    /\ LET h == elf.phdrs[ld.i + 1]
           dest == U32(Add(h.paddr, ld.guest_relocation_offset))
       IN  /\ h.type = PT_LOAD /\ h.memsz # 0
           /\ IF h.filesz > h.memsz
              THEN \* assert(file_size <= segment_size)
                   /\ fatal' = "assert: file_size <= segment_size"
                   /\ pc' = "fatal"
                   /\ UNCHANGED <<ld, ret, events, host>>
              ELSE \E slot_ok \in BOOLEAN :
                   IF ~slot_ok
                   THEN /\ events' = events \cup {"error: failed to allocate slot"}
                        /\ ret' = -1
                        /\ pc' = "elf_failed"
                        /\ UNCHANGED <<ld, fatal, host>>
                   ELSE /\ ld' = [ld EXCEPT
                                    !.source_offset = h.offset,
                                    !.dest_addr = dest,
                                    !.seg_dest = dest,
                                    !.segment_size = h.memsz,
                                    !.current = 0,
                                    !.remain = h.filesz]
                        /\ host' = [host EXCEPT !.slots = host.slots + 1]
                        /\ pc' = "segment"
                        /\ UNCHANGED <<ret, events, fatal>>
    /\ UNCHANGED <<ram_regions, e820_out, elf, env, guest_image, guest_mem,
                   mem_fill, ram_marked,
                   relocVars, bootVars>>

\* The byte count of one pass of the loop at lines 418-468.
CopyLen(dest_addr, remain) ==
    LET offset == dest_addr[2] % PageSize
        copy_len == PageSize - offset
    IN  IF remain > 0 /\ copy_len > remain THEN remain ELSE copy_len

\* Lines 418-468: one pass of the loop, one guest page.  outcome: the frame
\* cap is missing, the host mapping fails, or the page is mapped and filled.
LoadSegmentPage ==
    /\ pc = "segment"
    /\ ld.current < ld.segment_size
    /\ \E outcome \in {"ok", "nocap", "nomap"} :
         IF outcome # "ok"
         THEN /\ events' = events \cup
                    {IF outcome = "nocap" THEN "error: failed to find frame cap"
                     ELSE "error: failed to map page"}
              /\ ret' = -1
              /\ pc' = "elf_failed"
              /\ host' = IF outcome = "nomap" THEN CapCopied(host) ELSE host
              /\ UNCHANGED <<ld, guest_mem, fatal>>
         ELSE LET copy_len == CopyLen(ld.dest_addr, ld.remain)
              IN  IF ld.remain > 0
                  THEN IF ld.source_offset + copy_len > elf.size
                       THEN \* ZF_LOGF_IF(result != 1, ...)
                            /\ fatal' = "read failed unexpectedly"
                            /\ pc' = "fatal"
                            /\ host' = PageMapped(CapCopied(host))
                            /\ UNCHANGED <<ld, guest_mem, ret, events>>
                       ELSE /\ guest_mem' = MemWrite(guest_mem, ld.dest_addr,
                                       ElfBytes(ld.source_offset, copy_len))
                            /\ ld' = [ld EXCEPT
                                   !.source_offset = ld.source_offset + copy_len,
                                   !.remain = ld.remain - copy_len,
                                   !.dest_addr = U32(Add(ld.dest_addr, N(copy_len))),
                                   !.current = ld.current + copy_len]
                            /\ host' = CapDeleted(PageUnmapped(
                                            PageMapped(CapCopied(host))))
                            /\ UNCHANGED <<pc, ret, events, fatal>>
                  ELSE /\ guest_mem' = MemWrite(guest_mem, ld.dest_addr,
                                                Zeros(copy_len))
                       /\ ld' = [ld EXCEPT
                                   !.dest_addr = U32(Add(ld.dest_addr, N(copy_len))),
                                   !.current = ld.current + copy_len]
                       /\ host' = CapDeleted(PageUnmapped(
                                       PageMapped(CapCopied(host))))
                       /\ UNCHANGED <<pc, ret, events, fatal>>
    /\ UNCHANGED <<ram_regions, e820_out, elf, env, guest_image, mem_fill,
                   ram_marked,
                   relocVars, bootVars>>

\* Lines 470 and 556-562: the segment is loaded; record it as allocated.
LoadSegmentDone ==
    /\ pc = "segment"
    /\ ld.current >= ld.segment_size
    /\ ram_marked' = Append(ram_marked,
                            [start |-> ld.seg_dest,
                             size |-> elf.phdrs[ld.i + 1].memsz])
    /\ ld' = [ld EXCEPT !.i = ld.i + 1]
    /\ pc' = "elf_headers"
    /\ UNCHANGED <<host, ram_regions, e820_out, elf, env, guest_image, guest_mem,
                   mem_fill, events, ret, fatal,
                   relocVars, bootVars>>

\* Lines 564-580: record the entry point and the layout, return 0.
LoadElfFinish ==
    /\ pc = "elf_headers"
    /\ ld.i = Len(elf.phdrs)
    /\ guest_image' = [guest_image EXCEPT
                         !.entry = U32(Add(elf.entry, ld.guest_relocation_offset)),
                         !.load_paddr = ld.load_addr,
                         !.link_paddr = ld.guest_kernel_addr,
                         !.link_vaddr = ld.guest_kernel_vaddr,
                         !.relocation_offset = ld.guest_relocation_offset,
                         !.alignment = env.alignment]
    /\ ret' = 0
    /\ pc' = "elf_loaded"
    /\ UNCHANGED <<host, ram_regions, e820_out, elf, env, guest_mem, mem_fill, ld,
                   ram_marked, events, fatal,
                   relocVars, bootVars>>

(***************************************************************************)
(* vmm_plat_guest_elf_relocate.  The relocs file holds relocs.lead bytes   *)
(* (fewer than four) followed by the 32-bit words relocs.words; the scan   *)
(* reads 4-byte words backward from the end of the file.                   *)
(***************************************************************************)
\* The little-endian bytes of a 32-bit word, and back (the memcpy of
\* guest_elf_read_address / guest_elf_write_address on bytes of guest memory).
Bytes4(w) == <<w[2] % 256, w[2] \div 256, w[1] % 256, w[1] \div 256>>
Word4(b) == <<b[4] * 256 + b[3], b[2] * 256 + b[1]>>

MemWord(m, a) ==
    Word4([k \in 1..4 |-> MemByte(m, U32(Add(a, N(k - 1))))])

RelocsSize(f) == f.lead + 4 * Len(f.words)

\* Line 102: relocs_size / sizeof(uint32_t) - 1, as a uint32_t
NumRelocations(relocs_size) == U32(N((relocs_size \div 4) - 1))

\* (the early return left out)
RelocationNeeded_Always(image) == TRUE

\* Lines 61-65: is there anything to relocate
RelocationNeeded(image) == image.relocation_offset # Zero

\* Lines 119-120, with load_addr = image->link_paddr (line 67)
RelocGuestPaddr(image, vaddr) ==
    U32(Add(Sub(vaddr, U32(image.link_vaddr)),
            U32(Add(image.link_paddr, image.relocation_offset))))

\* Lines 125-130: read the word, add delta, write it back
PatchWord(m, a, delta) ==
    MemWrite(m, a, Bytes4(U32(Add(MemWord(m, a), delta))))

RelIdle ==
    [relocs_size |-> 0, num_relocations |-> Zero, i |-> 0,
     last_relocated_vaddr |-> Zero, pos |-> 0, patched |-> <<>>,
     reads |-> <<>>]

\* Lines 59-102: return at once when delta is 0; otherwise open the file
\* (panic when it is missing) and take its size.
RelocateBegin ==
    /\ pc = "elf_loaded"
    /\ IF ~RelocationNeeded(guest_image)
       THEN /\ pc' = "relocated"
            /\ UNCHANGED <<rel, events, fatal>>
       ELSE IF ~relocs.exists
       THEN /\ events' = events \cup {"fopen relocs",
                                      "error: relocs file not found"}
            /\ fatal' = "panic: relocation data file not found"
            /\ pc' = "fatal"
            /\ UNCHANGED rel
       ELSE /\ events' = events \cup {"fopen relocs"}
            /\ rel' = [RelIdle EXCEPT
                         !.relocs_size = RelocsSize(relocs),
                         !.num_relocations = NumRelocations(RelocsSize(relocs)),
                         !.last_relocated_vaddr = UINT32_MAX]
            /\ pc' = "reloc_scan"
            /\ UNCHANGED fatal
    /\ UNCHANGED <<host, ram_regions, e820_out, elf, env, guest_image, guest_mem,
                   mem_fill, ld, ram_marked, ret, relocs, bootVars>>

\* Lines 103-135: one pass of the scan.  When relocs_size - 4 * (i + 1) is
\* negative the uint32_t offset wraps; what fseek does with it depends on the
\* width of long: it seeks past the end of the file (long64, the read then
\* fails) or it fails and leaves the file position where the last read ended.
RelocateStep ==
    /\ pc = "reloc_scan"
    /\ \E long64 \in BOOLEAN :
         LET off == rel.relocs_size - 4 * (rel.i + 1)
             inrange == off >= 0
             readpos == IF inrange THEN off ELSE rel.pos
             readok == /\ inrange \/ ~long64
                       /\ readpos >= relocs.lead
                       /\ readpos + 4 <= rel.relocs_size
             vaddr == relocs.words[((readpos - relocs.lead) \div 4) + 1]
             guest_paddr == RelocGuestPaddr(guest_image, vaddr)
         IN  /\ inrange => long64
             /\ IF ~readok
                THEN \* ZF_LOGF_IF(result != 1, "Read failed unexpectedly")
                     /\ fatal' = "read failed unexpectedly"
                     /\ pc' = "fatal"
                     /\ UNCHANGED <<rel, guest_mem>>
                ELSE IF vaddr = Zero
                THEN /\ rel' = [rel EXCEPT !.pos = readpos + 4,
                                           !.reads = Append(rel.reads, readpos)]
                     /\ pc' = "reloc_end"
                     /\ UNCHANGED <<guest_mem, fatal>>
                ELSE IF ~(rel.i * 4 < rel.relocs_size)
                THEN /\ fatal' = "assert: i * sizeof(uint32_t) < relocs_size"
                     /\ pc' = "fatal"
                     /\ rel' = [rel EXCEPT !.pos = readpos + 4,
                                           !.reads = Append(rel.reads, readpos)]
                     /\ UNCHANGED guest_mem
                ELSE IF Lt(vaddr, U32(guest_image.link_vaddr))
                THEN /\ fatal' = "assert: vaddr >= link_vaddr"
                     /\ pc' = "fatal"
                     /\ rel' = [rel EXCEPT !.pos = readpos + 4,
                                           !.reads = Append(rel.reads, readpos),
                                           !.last_relocated_vaddr = vaddr]
                     /\ UNCHANGED guest_mem
                ELSE /\ guest_mem' = PatchWord(guest_mem, guest_paddr,
                                               guest_image.relocation_offset)
                     /\ rel' = [rel EXCEPT
                                  !.pos = readpos + 4,
                                  !.reads = Append(rel.reads, readpos),
                                  !.last_relocated_vaddr = vaddr,
                                  !.patched = Append(rel.patched, guest_paddr),
                                  !.i = rel.i + 1]
                     /\ UNCHANGED <<pc, fatal>>
    /\ UNCHANGED <<host, ram_regions, e820_out, elf, env, guest_image, mem_fill, ld,
                   ram_marked, events, ret, relocs, bootVars>>

\* Lines 136-146: the zero word was read.
RelocateEnd ==
    /\ pc = "reloc_end"
    /\ IF rel.num_relocations = Zero
       THEN /\ fatal' = "panic: kernel not built relocatable"
            /\ pc' = "fatal"
       ELSE /\ pc' = "relocated"
            /\ UNCHANGED fatal
    /\ UNCHANGED <<host, ram_regions, e820_out, elf, env, guest_image, guest_mem,
                   mem_fill, ld, ram_marked, events, ret, relocVars, bootVars>>

(***************************************************************************)
(* vmm_guest_load_boot_module.  Byte o of the module file is ModByte(o).   *)
(***************************************************************************)
ModByte(o) == 201 + (o % 50)
ModBytes(n) == [k \in 1..n |-> ModByte(k - 1)]

LoadBootModule ==
    /\ pc = "relocated"
    /\ IF ~module.exists
       THEN /\ events' = events \cup {"fopen module",
                                      "error: boot module not found"}
            /\ ret' = -1
            /\ pc' = "module_failed"
            /\ UNCHANGED <<guest_image, guest_mem, ram_marked>>
       ELSE IF module.size = 0
       THEN /\ events' = events \cup {"fopen module",
                                      "error: boot module has zero size"}
            /\ ret' = -1
            /\ pc' = "module_failed"
            /\ UNCHANGED <<guest_image, guest_mem, ram_marked>>
       ELSE /\ events' = events \cup {"fopen module"}
            /\ guest_image' = [guest_image EXCEPT
                                 !.boot_module_paddr = env.module_start,
                                 !.boot_module_size = N(module.size)]
            /\ ram_marked' = Append(ram_marked, [start |-> env.module_start,
                                                 size |-> module.size])
            /\ guest_mem' = MemWrite(guest_mem, env.module_start,
                                     ModBytes(module.size))
            /\ ret' = 0
            /\ pc' = "module_done"
    /\ UNCHANGED <<host, ram_regions, e820_out, elf, env, mem_fill, ld, fatal,
                   relocVars, cmdline, module, allocs, boot_block, regs>>

\* The VM is configured without a boot module: the call is not made.
SkipBootModule ==
    /\ pc = "relocated"
    /\ pc' = "module_done"
    /\ UNCHANGED <<host, ram_regions, e820_out, elf, env, guest_image, guest_mem,
                   mem_fill, ld, ram_marked, events, ret, fatal, relocVars,
                   bootVars>>

(***************************************************************************)
(* vmm_plat_init_guest_boot_structure: make_guest_cmd_line,                *)
(* make_guest_boot_info, make_guest_acpi_tables, each followed by          *)
(* assert(!err).                                                           *)
(***************************************************************************)
\* strlen: the number of bytes before the first zero byte of the buffer
Strlen(buf) ==
    (CHOOSE i \in 1..Len(buf) :
        buf[i] = 0 /\ \A j \in 1..(i - 1) : buf[j] # 0) - 1

\* (the terminator forgotten)
CmdLineAllocSize_NoTerminator(buf) == Strlen(buf)

\* Line 208: the size asked of guest_ram_allocate
CmdLineAllocSize(buf) == Strlen(buf) + 1

\* Line 216: the bytes copied by make_guest_cmd_line_continued
CmdLineBytes(buf) == SubSeq(buf, 1, Strlen(buf) + 1)

\* Lines 205-217 and 377-378.  addr: what guest_ram_allocate answers.
MakeCmdLine ==
    /\ pc = "module_done"
    /\ \E addr \in env.alloc_answers :
         /\ allocs' = Append(allocs, [size |-> CmdLineAllocSize(cmdline),
                                      addr |-> addr])
         /\ IF addr = Zero
            THEN /\ events' = events \cup
                                {"error: failed to allocate guest cmdline"}
                 /\ ret' = -1
                 /\ fatal' = "assert: !err"
                 /\ pc' = "fatal"
                 /\ UNCHANGED <<guest_image, guest_mem>>
            ELSE /\ guest_image' = [guest_image EXCEPT
                                      !.cmd_line = addr,
                                      !.cmd_line_len = N(Strlen(cmdline))]
                 /\ guest_mem' = MemWrite(guest_mem, addr, CmdLineBytes(cmdline))
                 /\ ret' = 0
                 /\ pc' = "cmdline_done"
                 /\ UNCHANGED <<events, fatal>>
    /\ UNCHANGED <<host, ram_regions, e820_out, elf, env, mem_fill, ld, ram_marked,
                   relocVars, cmdline, module, boot_block, regs>>

\* sizeof(struct boot_params)
BOOT_PARAMS_SIZE == 4096

\* Line 362: was a boot module loaded
HasBootModule(image) == image.boot_module_paddr # Zero

\* Lines 334-369: the block assembled in host memory.  screen: what
\* make_guest_screen_info left ("vesa" or "zeroed"); map: the e820 result.
BootParams(image, screen, map) ==
    [hdr |-> [header |-> 1400005704,    \* 0x53726448
              boot_flag |-> 43605,      \* 0xAA55
              type_of_loader |-> 255,   \* 0xFF
              code32_start |-> image.load_paddr,
              kernel_alignment |-> image.alignment,
              relocatable_kernel |-> 1,
              cmd_line_ptr |-> image.cmd_line,
              cmdline_size |-> image.cmd_line_len,
              ramdisk_image |-> IF HasBootModule(image)
                                THEN U32(image.boot_module_paddr) ELSE Zero,
              ramdisk_size |-> IF HasBootModule(image)
                               THEN image.boot_module_size ELSE Zero,
              root_dev |-> IF HasBootModule(image) THEN 256 ELSE 0,   \* 0x0100
              version |-> IF HasBootModule(image) THEN 516 ELSE 514], \* 0x0204, 0x0202
     screen_info |-> screen,
     e820_map |-> map.e820,
     e820_entries |-> map.n,
     alt_mem_k |-> 0]

NoBootBlock == [written |-> FALSE, addr |-> Zero, params |-> <<>>]

\* Lines 323-371 and 380-381.  addr: what guest_ram_allocate answers;
\* screen: the outcome of make_guest_screen_info.
MakeBootInfo ==
    /\ pc = "cmdline_done"
    /\ \E addr \in env.alloc_answers, screen \in {"vesa", "zeroed"} :
         /\ allocs' = Append(allocs, [size |-> BOOT_PARAMS_SIZE, addr |-> addr])
         /\ IF addr = Zero
            THEN /\ events' = events \cup
                                {"error: failed to allocate guest boot info"}
                 /\ ret' = -1
                 /\ fatal' = "assert: !err"
                 /\ pc' = "fatal"
                 /\ UNCHANGED <<guest_image, boot_block, e820_out>>
            ELSE LET map == make_guest_e820_map(ram_regions)
                     image == [guest_image EXCEPT !.boot_info = addr]
                 IN  /\ guest_image' = image
                     /\ e820_out' = map
                     /\ IF map.abort
                        THEN /\ fatal' = "assert: e820"
                             /\ pc' = "fatal"
                             /\ UNCHANGED <<boot_block, ret>>
                        ELSE /\ boot_block' =
                                  [written |-> TRUE, addr |-> addr,
                                   params |-> BootParams(image, screen, map)]
                             /\ ret' = 0
                             /\ pc' = "boot_info_done"
                             /\ UNCHANGED fatal
                     /\ UNCHANGED events
    /\ UNCHANGED <<host, ram_regions, elf, env, guest_mem, mem_fill, ld, ram_marked,
                   relocVars, cmdline, module, regs>>

\* Lines 383-384: make_guest_acpi_tables, known here only by its result.
MakeAcpiTables ==
    /\ pc = "boot_info_done"
    /\ \E err \in BOOLEAN :
         IF err
         THEN /\ fatal' = "assert: !err"
              /\ pc' = "fatal"
         ELSE /\ pc' = "boot_built"
              /\ UNCHANGED fatal
    /\ UNCHANGED <<host, ram_regions, e820_out, elf, env, guest_image, guest_mem,
                   mem_fill, ld, ram_marked, events, ret, relocVars, bootVars>>

(***************************************************************************)
(* vmm_init_guest_thread_state.                                            *)
(***************************************************************************)
\* what every register holds before the initializer runs
RegJunk == UINT32_MAX
RegsInit ==
    [eax |-> RegJunk, ebx |-> RegJunk, ecx |-> RegJunk, edx |-> RegJunk,
     esi |-> RegJunk, edi |-> RegJunk, ebp |-> RegJunk, eip |-> RegJunk]

\* (ESI given the command line instead of the boot parameters)
InitThreadRegs_EsiCmdLine(r, image) ==
    [r EXCEPT !.eax = Zero, !.ebx = Zero, !.ecx = Zero, !.edx = Zero,
              !.eip = image.entry, !.esi = image.cmd_line]

\* Lines 387-398
InitThreadRegs(r, image) ==
    [r EXCEPT !.eax = Zero, !.ebx = Zero, !.ecx = Zero, !.edx = Zero,
              !.eip = image.entry, !.esi = image.boot_info]

InitGuestThreadState ==
    /\ pc = "boot_built"
    /\ regs' = InitThreadRegs(regs, guest_image)
    /\ pc' = "done"
    /\ UNCHANGED <<host, ram_regions, e820_out, elf, env, guest_image, guest_mem,
                   mem_fill, ld, ram_marked, events, ret, fatal, relocVars,
                   cmdline, module, allocs, boot_block>>

(***************************************************************************)
(* Inputs of the ELF load.                                                 *)
(***************************************************************************)
MaxHeaders == 2

\* 0x00100000 + n, the addresses the kernel is linked at
K(n) == <<16, n>>
\* the virtual address of the physical address p (p + 0xC0000000)
V(p) == U32(Add(p, <<49152, 0>>))

Phdr(t, o, p, f, m) ==
    [type |-> t, offset |-> o, paddr |-> p, vaddr |-> V(p), filesz |-> f,
     memsz |-> m]

ElfFileSize == 24

PhdrPool ==
    { Phdr(PT_LOAD, 0, K(0), 3, 3),      \* file bytes only, ends inside a page
      Phdr(PT_LOAD, 4, K(4), 2, 4),      \* zero tail up to the end of a page
      Phdr(PT_LOAD, 8, K(0), 2, 10),     \* zero tail ending inside the next page
      Phdr(PT_LOAD, 10, K(12), 2, 2),    \* shares that next page
      Phdr(PT_LOAD, 12, K(0), 1, 2),     \* zero tail ending inside its first page
      Phdr(PT_NOTE, 0, <<0, 16>>, 4, 4), \* not loadable, lowest address of all
      Phdr(PT_LOAD, 0, <<15, 65520>>, 0, 0),       \* no memory size
      Phdr(PT_LOAD, 0, K(16), 4, 2),               \* file_size > segment_size
      Phdr(PT_LOAD, ElfFileSize - 2, K(24), 4, 4)  \* file bytes past the end
    }

ElfFiles ==
    {[exists |-> FALSE, valid |-> FALSE, entry |-> Zero, phdrs |-> <<>>,
      size |-> 0],
     [exists |-> TRUE, valid |-> FALSE, entry |-> Zero, phdrs |-> <<>>,
      size |-> ElfFileSize]}
    \cup {[exists |-> TRUE, valid |-> TRUE, entry |-> K(4), phdrs |-> hs,
           size |-> ElfFileSize] :
            hs \in UNION {[1..n -> PhdrPool] : n \in 1..MaxHeaders}}

\* guest_ram_largest_free_region_start: 0, 0x100000, 0x1FF001, 0xC0000000
FreeStarts == {<<0, 0>>, <<16, 0>>, <<31, 61441>>, <<49152, 0>>}
\* 0x1000, 0x400000
Alignments == {<<0, 4096>>, <<64, 0>>}
\* what guest memory holds before the load
Fills == {0, 170}

NoMem == [x \in {} |-> 0]

(***************************************************************************)
(* Inputs of the relocation: images as vmm_load_guest_elf leaves them, and *)
(* relocs files.                                                           *)
(***************************************************************************)
MaxRelocWords == 3

LoadedImage(link_paddr, link_vaddr, load_paddr) ==
    [ImageZero EXCEPT
        !.load_paddr = load_paddr,
        !.link_paddr = link_paddr,
        !.link_vaddr = link_vaddr,
        !.relocation_offset = RelocationOffset(load_paddr, link_paddr),
        !.entry = U32(Add(K(4), RelocationOffset(load_paddr, link_paddr))),
        !.alignment = <<0, 4096>>]

LoadedImages ==
    { LoadedImage(K(0), K(0), <<32, 0>>),        \* 0x100000 -> 0x200000
      LoadedImage(K(0), V(K(0)), K(0)),          \* loaded where it was linked
      LoadedImage(K(0), V(K(0)), <<64, 0>>),     \* 0x100000 -> 0x400000
      LoadedImage(K(0), K(0), <<0, 0>>),         \* 0x100000 -> 0
      LoadedImage(K(0), V(K(0)), <<49152, 0>>),  \* 0x100000 -> 0xC0000000
      LoadedImage(K(0), K(0), <<49152, 0>>) }    \* the same, linked at vaddr = paddr

\* 0, 0x00100010, 0x00100020, 0x000FFFF0, 0xC0100010
RelocWords == {Zero, K(16), K(32), <<15, 65520>>, V(K(16))}

RelocFiles ==
    {[exists |-> FALSE, lead |-> 0, words |-> <<>>]}
    \cup {[exists |-> TRUE, lead |-> l, words |-> ws] :
            l \in {0, 1},
            ws \in UNION {[1..n -> RelocWords] : n \in 0..MaxRelocWords}}

NoRelocs == [exists |-> FALSE, lead |-> 0, words |-> <<>>]

(***************************************************************************)
(* Inputs of the boot structures.                                          *)
(***************************************************************************)
MaxCmdLen == 2

\* "console=ttyS0" and its terminator
ConsoleCmdLine ==
    <<99, 111, 110, 115, 111, 108, 101, 61, 116, 116, 121, 83, 48, 0>>

\* Buffers that hold a C string: some bytes, a zero byte, and whatever
\* follows it in the buffer.
CmdLines ==
    {ConsoleCmdLine}
    \cup UNION {{b \in [1..n -> {0, 97, 98}] : b[n] = 0} : n \in 1..(MaxCmdLen + 1)}

Modules == {[exists |-> FALSE, size |-> 0], [exists |-> TRUE, size |-> 0],
            [exists |-> TRUE, size |-> 3]}
NoModule == [exists |-> FALSE, size |-> 0]

\* guest_ram_allocate: 0 (no room), 0x500000, 0x7FFFC
AllocAnswers == {Zero, <<80, 0>>, <<7, 65532>>}

BootRegionLists ==
    { <<[start |-> <<16, 0>>, size |-> <<16, 0>>]>>,
      <<[start |-> <<0, 0>>, size |-> <<10, 0>>],
        [start |-> <<16, 0>>, size |-> <<2032, 0>>]>>,
      <<[start |-> <<16, 0>>, size |-> <<Base - 16, 0>>]>> }

(***************************************************************************)
(* Specifications.                                                         *)
(***************************************************************************)
E820Idle == e820_out = [e820 |-> <<>>, n |-> 0, abort |-> FALSE]

LoadIdle ==
    /\ elf = [exists |-> FALSE, valid |-> FALSE, entry |-> Zero,
              phdrs |-> <<>>, size |-> 0]
    /\ ld = LdIdle
    /\ ram_marked = <<>>

RelocIdle ==
    /\ relocs = NoRelocs
    /\ rel = RelIdle

BootIdle ==
    /\ cmdline = <<0>>
    /\ module = NoModule
    /\ allocs = <<>>
    /\ boot_block = NoBootBlock
    /\ regs = RegsInit

NothingYet ==
    /\ guest_mem = NoMem
    /\ events = {}
    /\ ret = 0
    /\ fatal = "none"
    /\ host = HostIdle

EnvIdle ==
    [free_start |-> Zero, alignment |-> <<0, 4096>>, module_start |-> Zero,
     alloc_answers |-> {Zero}]

\* The memory-map construction alone.
InitE820 ==
    /\ pc = "e820_call"
    /\ ram_regions \in RegionLists
    /\ E820Idle
    /\ env = EnvIdle
    /\ guest_image = ImageZero
    /\ mem_fill = 0
    /\ NothingYet /\ LoadIdle /\ RelocIdle /\ BootIdle

MakeE820 ==
    /\ pc = "e820_call"
    /\ e820_out' = make_guest_e820_map(ram_regions)
    /\ pc' = IF e820_out'.abort THEN "fatal" ELSE "e820_done"
    /\ fatal' = IF e820_out'.abort THEN "assert: e820" ELSE fatal
    /\ UNCHANGED <<host, ram_regions, elf, env, guest_image, guest_mem, mem_fill, ld,
                   ram_marked, events, ret, relocVars, bootVars>>

SpecE820 == InitE820 /\ [][MakeE820]_vars

\* The ELF load alone.
InitLoad ==
    /\ pc = "start"
    /\ elf \in ElfFiles
    /\ env \in {[EnvIdle EXCEPT !.free_start = f, !.alignment = a] :
                  f \in FreeStarts, a \in Alignments}
    /\ guest_image = ImageZero
    /\ mem_fill \in Fills
    /\ ld = LdIdle
    /\ ram_marked = <<>>
    /\ ram_regions = <<>>
    /\ E820Idle
    /\ NothingYet /\ RelocIdle /\ BootIdle

NextLoad ==
    \/ LoadElfOpen
    \/ LoadElfSkipHeader
    \/ LoadSegmentBegin
    \/ LoadSegmentPage
    \/ LoadSegmentDone
    \/ LoadElfFinish

SpecLoad == InitLoad /\ [][NextLoad]_vars

\* The relocation alone, from a loaded image.
InitReloc ==
    /\ pc = "elf_loaded"
    /\ guest_image \in LoadedImages
    /\ relocs \in RelocFiles
    /\ rel = RelIdle
    /\ mem_fill \in {0, 170, 255}
    /\ env = EnvIdle
    /\ ram_regions = <<>>
    /\ E820Idle
    /\ NothingYet /\ LoadIdle /\ BootIdle

NextReloc ==
    \/ RelocateBegin
    \/ RelocateStep
    \/ RelocateEnd

SpecReloc == InitReloc /\ [][NextReloc]_vars

\* The boot module, the boot structures and the initial thread state, from
\* a loaded and relocated image.
InitBoot ==
    /\ pc = "relocated"
    /\ guest_image \in {LoadedImage(K(0), V(K(0)), <<64, 0>>)}
    /\ module \in Modules
    /\ cmdline \in CmdLines
    /\ env \in {[EnvIdle EXCEPT !.module_start = m,
                                !.alloc_answers = AllocAnswers] :
                  m \in {Zero, <<128, 0>>}}
    /\ ram_regions \in BootRegionLists
    /\ allocs = <<>>
    /\ boot_block = NoBootBlock
    /\ regs = RegsInit
    /\ mem_fill = 170
    /\ E820Idle
    /\ NothingYet /\ LoadIdle /\ RelocIdle

NextBoot ==
    \/ LoadBootModule
    \/ SkipBootModule
    \/ MakeCmdLine
    \/ MakeBootInfo
    \/ MakeAcpiTables
    \/ InitGuestThreadState

SpecBoot == InitBoot /\ [][NextBoot]_vars

\* The whole sequence: load the ELF, relocate, load the boot module, build
\* the boot structures, initialise the thread state.
SeqElfFiles ==
    {[exists |-> FALSE, valid |-> FALSE, entry |-> Zero, phdrs |-> <<>>,
      size |-> 0],
     [exists |-> TRUE, valid |-> TRUE, entry |-> K(4),
      phdrs |-> <<Phdr(PT_NOTE, 0, <<0, 16>>, 4, 4),
                  Phdr(PT_LOAD, 8, K(0), 2, 10)>>,
      size |-> ElfFileSize],
     [exists |-> TRUE, valid |-> TRUE, entry |-> <<Base - 1, 0>>,
      phdrs |-> <<Phdr(PT_LOAD, 0, K(16), 3, 3)>>,
      size |-> ElfFileSize]}

SeqRelocFiles ==
    {NoRelocs,
     [exists |-> TRUE, lead |-> 0, words |-> <<Zero, V(K(16)), V(K(20))>>],
     [exists |-> TRUE, lead |-> 0, words |-> <<V(K(16)), Zero>>]}

Init ==
    /\ pc = "start"
    /\ elf \in SeqElfFiles
    /\ env \in {[free_start |-> f, alignment |-> <<0, 4096>>,
                 module_start |-> m, alloc_answers |-> AllocAnswers] :
                  f \in {K(0), <<31, 61441>>, <<49152, 0>>},
                  m \in {Zero, <<128, 0>>}}
    /\ relocs \in SeqRelocFiles
    /\ module \in Modules
    /\ cmdline \in {<<0>>, <<97, 98, 0>>}
    /\ ram_regions \in BootRegionLists
    /\ guest_image = ImageZero
    /\ mem_fill = 170
    /\ ld = LdIdle
    /\ ram_marked = <<>>
    /\ rel = RelIdle
    /\ allocs = <<>>
    /\ boot_block = NoBootBlock
    /\ regs = RegsInit
    /\ E820Idle
    /\ NothingYet

Next ==
    \/ LoadElfOpen
    \/ LoadElfSkipHeader
    \/ LoadSegmentBegin
    \/ LoadSegmentPage
    \/ LoadSegmentDone
    \/ LoadElfFinish
    \/ RelocateBegin
    \/ RelocateStep
    \/ RelocateEnd
    \/ LoadBootModule
    \/ SkipBootModule
    \/ MakeCmdLine
    \/ MakeBootInfo
    \/ MakeAcpiTables
    \/ InitGuestThreadState

Spec == Init /\ [][Next]_vars

(***************************************************************************)
(* Claims about the ELF load.                                              *)
(***************************************************************************)
Loadable(h) == h.type = PT_LOAD /\ h.memsz # 0

\* [paddr, paddr + memsz) of two headers have no byte in common
SegmentsDisjoint(g, h) ==
    \/ Le(Add(g.paddr, N(g.memsz)), h.paddr)
    \/ Le(Add(h.paddr, N(h.memsz)), g.paddr)

NonOverlappingLoad(phdrs) ==
    \A i, j \in 1..Len(phdrs) :
        (i # j /\ Loadable(phdrs[i]) /\ Loadable(phdrs[j]))
            => SegmentsDisjoint(phdrs[i], phdrs[j])

\* guest memory at the destination of header h holds the file bytes and
\* then zeros
SegmentImageOk(h, offset) ==
    LET dest == U32(Add(h.paddr, offset))
    IN  /\ \A k \in 0..(h.filesz - 1) :
              MemByte(guest_mem, U32(Add(dest, N(k)))) = ElfByte(h.offset + k)
        /\ \A k \in h.filesz..(h.memsz - 1) :
              MemByte(guest_mem, U32(Add(dest, N(k)))) = 0

\* C2: after a successful load of an ELF whose PT_LOAD segments do not
\* overlap (whatever their order, also when two share a page), guest memory
\* at every segment's destination holds file_size file bytes followed by
\* mem_size - file_size zero bytes.
C2_SegmentsLoadedExactly ==
    (pc = "elf_loaded" /\ NonOverlappingLoad(elf.phdrs)) =>
        \A i \in 1..Len(elf.phdrs) :
            Loadable(elf.phdrs[i]) =>
                SegmentImageOk(elf.phdrs[i], guest_image.relocation_offset)

\* No two loadable segments have a byte of the same page.
NoSharedPage(phdrs) ==
    \A i, j \in 1..Len(phdrs) :
        (i # j /\ Loadable(phdrs[i]) /\ Loadable(phdrs[j])) =>
            LET PageOf(a) == <<a[1], a[2] \div PageSize>>
                g == phdrs[i]
                h == phdrs[j]
            IN  \/ Lt(PageOf(Add(g.paddr, N(g.memsz - 1))), PageOf(h.paddr))
                \/ Lt(PageOf(Add(h.paddr, N(h.memsz - 1))), PageOf(g.paddr))

\* The same statement for segments that share no page.
SegmentsLoadedExactlyWhenPagesApart ==
    (pc = "elf_loaded" /\ NoSharedPage(elf.phdrs)) =>
        \A i \in 1..Len(elf.phdrs) :
            Loadable(elf.phdrs[i]) =>
                SegmentImageOk(elf.phdrs[i], guest_image.relocation_offset)

\* C5: after a successful load, relocation_offset is load_paddr - link_paddr
\* as an integer, whatever the two addresses are (also when they are 2^31
\* or more apart), so link_paddr + relocation_offset is load_paddr.
C5_RelocationOffsetExact ==
    pc = "elf_loaded" =>
        /\ guest_image.relocation_offset =
               Sub(guest_image.load_paddr, guest_image.link_paddr)
        /\ Add(guest_image.link_paddr, guest_image.relocation_offset) =
               guest_image.load_paddr

\* What the code does keep: the offset is that difference modulo 2^32, read
\* as a signed 32-bit integer.
RelocationOffsetModulo ==
    pc = "elf_loaded" =>
        /\ U32(guest_image.relocation_offset) =
               U32(Sub(guest_image.load_paddr, guest_image.link_paddr))
        /\ Le(<<-(Base \div 2), 0>>, guest_image.relocation_offset)
        /\ Lt(guest_image.relocation_offset, <<Base \div 2, 0>>)
        /\ guest_image.load_paddr = ROUND_UP(env.free_start, env.alignment)
        /\ guest_image.link_paddr =
               MinOverLoad(elf.phdrs, "paddr", UINT32_MAX, 1)

(***************************************************************************)
(* Claims about the relocation.                                            *)
(***************************************************************************)
\* The nonzero words met scanning backward from word k up to the first zero
\* word, in the order they are met.
RECURSIVE TailOf(_, _)
TailOf(words, k) ==
    IF k = 0 THEN <<>>
    ELSE IF words[k] = Zero THEN <<>>
    ELSE <<words[k]>> \o TailOf(words, k - 1)

ScanTail == TailOf(relocs.words, Len(relocs.words))

\* vaddr - link_vaddr + load_paddr
PaddrOfVaddr(image, vaddr) ==
    U32(Add(Sub(vaddr, image.link_vaddr), image.load_paddr))

\* memory m with the word at a replaced by its value plus delta (mod 2^32)
WordIncreased(m, a, delta) ==
    MemWrite(m, a, Bytes4(U32(Add(MemWord(m, a), delta))))

RECURSIVE Relocated(_, _, _, _)
Relocated(m, image, tail, k) ==
    IF k > Len(tail) THEN m
    ELSE Relocated(WordIncreased(m, PaddrOfVaddr(image, tail[k]),
                                 image.relocation_offset),
                   image, tail, k + 1)

\* link_vaddr = 0x00100000, load_paddr = 0x00200000, offset 0x00100000
RelocExampleImage == LoadedImage(K(0), K(0), <<32, 0>>)
RelocExampleFile ==
    [exists |-> TRUE, lead |-> 0, words |-> <<K(16), K(32), Zero>>]

\* After a relocation that returned: exactly the words named by the entries
\* read before the first zero word were increased by the offset, in that
\* order, and no other guest byte was written.
RelocPatchesScanTail ==
    (pc = "relocated" /\ RelocationNeeded(guest_image)) =>
        /\ rel.patched = [k \in 1..Len(ScanTail) |->
                             PaddrOfVaddr(guest_image, ScanTail[k])]
        /\ guest_mem = Relocated(NoMem, guest_image, ScanTail, 1)

\* C3: a relocation with a nonzero offset that returns has increased by the
\* offset (mod 2^32) the word at vaddr - link_vaddr + load_paddr for each
\* nonzero word vaddr read before the first zero word of the backward scan,
\* has changed no other guest memory, and counts as many entries processed
\* as it patched words; for the file {0x00100010, 0x00100020, 0} the words
\* at 0x00200010 and 0x00200020 are increased by 0x00100000 and 2 entries
\* are processed.
C3_RelocationPatchesAndCounts ==
    (pc = "relocated" /\ RelocationNeeded(guest_image)) =>
        /\ rel.patched = [k \in 1..Len(ScanTail) |->
                             PaddrOfVaddr(guest_image, ScanTail[k])]
        /\ guest_mem = Relocated(NoMem, guest_image, ScanTail, 1)
        /\ rel.num_relocations = N(Len(rel.patched))
        /\ (guest_image = RelocExampleImage /\ relocs = RelocExampleFile) =>
              /\ MemWord(guest_mem, <<32, 16>>) =
                     U32(Add(MemWord(NoMem, <<32, 16>>), <<16, 0>>))
              /\ MemWord(guest_mem, <<32, 32>>) =
                     U32(Add(MemWord(NoMem, <<32, 32>>), <<16, 0>>))
              /\ rel.num_relocations = N(2)
              /\ Len(rel.patched) = 2

\* C4: when load_paddr = link_paddr the relocation is a single step that
\* returns and changes nothing: no file is opened, no guest memory is read
\* or written, GuestImage is untouched and no fatal error is raised,
\* whatever the relocs file is (missing, empty, corrupt).
C4_NoRelocationIsNoOp ==
    [][(pc = "elf_loaded" /\ guest_image.load_paddr = guest_image.link_paddr)
          => /\ pc' = "relocated"
             /\ UNCHANGED <<guest_image, guest_mem, events, fatal, rel, ret>>]_vars

\* The no-op happened although the relocs file is missing.
C4_Witness ==
    /\ pc = "relocated"
    /\ guest_image.load_paddr = guest_image.link_paddr
    /\ ~relocs.exists
    /\ "fopen relocs" \notin events

\* C6: a relocation with a nonzero offset whose scan patches no word (the
\* last word of the file is zero) ends in the fatal error "kernel not built
\* relocatable"; it never returns having patched nothing.
C6_NothingPatchedIsFatal ==
    /\ (pc = "relocated" /\ RelocationNeeded(guest_image)) =>
           Len(rel.patched) > 0
    /\ (/\ pc \in {"relocated", "fatal"}
        /\ RelocationNeeded(guest_image)
        /\ relocs.exists
        /\ Len(relocs.words) > 0
        /\ Last(relocs.words) = Zero) =>
           /\ pc = "fatal"
           /\ fatal = "panic: kernel not built relocatable"

(***************************************************************************)
(* Claims about missing files.                                             *)
(***************************************************************************)
\* C7: a missing input file is a reported error that does not bring the
\* host process down: the ELF load and the boot-module load return an error
\* with GuestImage and guest memory as they were, and so does a relocation
\* that needs the relocs file.
C7_MissingFileIsReportedError ==
    /\ (~elf.exists /\ pc # "start") =>
           /\ pc = "elf_failed" /\ ret = -1 /\ fatal = "none"
           /\ "error: guest elf not found" \in events
           /\ guest_image = ImageZero /\ guest_mem = NoMem
    /\ (~module.exists /\ "fopen module" \in events) =>
           /\ pc = "module_failed" /\ ret = -1 /\ fatal = "none"
           /\ "error: boot module not found" \in events
           /\ guest_image.boot_module_paddr = Zero
           /\ guest_image.boot_module_size = Zero
    /\ (~relocs.exists /\ "fopen relocs" \in events) =>
           /\ fatal = "none"
           /\ "error: relocs file not found" \in events

\* What holds of the two loaders: a missing ELF or boot module is one step
\* that reports, returns -1 and leaves GuestImage and guest memory alone.
MissingElfOrModuleIsCleanError ==
    [][/\ (pc = "start" /\ ~elf.exists) =>
            /\ pc' = "elf_failed" /\ ret' = -1
            /\ "error: guest elf not found" \in events'
            /\ UNCHANGED <<guest_image, guest_mem, fatal>>
       /\ (pc = "relocated" /\ ~module.exists /\ pc' # "module_done") =>
            /\ pc' = "module_failed" /\ ret' = -1
            /\ "error: boot module not found" \in events'
            /\ UNCHANGED <<guest_image, guest_mem, fatal>>]_vars

(***************************************************************************)
(* Claims about the boot structures.                                       *)
(***************************************************************************)
\* vmm_guest_load_boot_module has returned 0
ModuleLoaded == module.exists /\ module.size > 0 /\ "fopen module" \in events

HeaderMagicOk(hdr) == hdr.header = 1400005704 /\ hdr.boot_flag = 43605

\* C8: the block written has header 0x53726448 and boot_flag 0xAA55; when a
\* boot module was loaded (wherever) it has version 0x0204, the module's
\* address and size and root_dev 0x0100; when none was loaded it has version
\* 0x0202 and those three fields zero.
C8_BootParamsRamdiskGated ==
    boot_block.written =>
        LET hdr == boot_block.params.hdr
        IN  /\ HeaderMagicOk(hdr)
            /\ ModuleLoaded =>
                  /\ hdr.version = 516
                  /\ hdr.ramdisk_image = guest_image.boot_module_paddr
                  /\ hdr.ramdisk_image = env.module_start
                  /\ hdr.ramdisk_size = N(module.size)
                  /\ hdr.root_dev = 256
            /\ ~ModuleLoaded =>
                  /\ hdr.version = 514
                  /\ hdr.ramdisk_image = Zero
                  /\ hdr.ramdisk_size = Zero
                  /\ hdr.root_dev = 0

\* The same statement with "loaded at a nonzero address" for "loaded".
BootParamsGatedOnNonzeroAddress ==
    boot_block.written =>
        LET hdr == boot_block.params.hdr
            loaded == ModuleLoaded /\ env.module_start # Zero
        IN  /\ HeaderMagicOk(hdr)
            /\ loaded =>
                  /\ hdr.version = 516
                  /\ hdr.ramdisk_image = env.module_start
                  /\ hdr.ramdisk_size = N(module.size)
                  /\ hdr.root_dev = 256
            /\ ~loaded =>
                  /\ hdr.version = 514
                  /\ hdr.ramdisk_image = Zero
                  /\ hdr.ramdisk_size = Zero
                  /\ hdr.root_dev = 0

\* guest memory as the boot-module step left it
MemBeforeCmdLine ==
    IF ModuleLoaded THEN MemWrite(NoMem, env.module_start, ModBytes(module.size))
    ELSE NoMem

\* C9: for the string s held by the buffer (the n bytes before its first
\* zero byte), make_guest_cmd_line asks the region tracker for exactly n + 1
\* bytes; when the answer is an address, the n + 1 guest bytes there are s
\* and a zero byte and cmd_line / cmd_line_len are the address and n; when
\* the answer is 0 it returns an error and neither guest memory nor
\* GuestImage is written.  "console=ttyS0" asks for 14 bytes.
C9_CmdLineCopiedWithTerminator ==
    Len(allocs) >= 1 =>
        \E n \in 0..(Len(cmdline) - 1) :
            /\ cmdline[n + 1] = 0
            /\ \A j \in 1..n : cmdline[j] # 0
            /\ allocs[1].size = n + 1
            /\ (cmdline = ConsoleCmdLine => allocs[1].size = 14)
            /\ allocs[1].addr # Zero =>
                  /\ \A j \in 1..n :
                        MemByte(guest_mem, U32(Add(allocs[1].addr, N(j - 1))))
                            = cmdline[j]
                  /\ MemByte(guest_mem, U32(Add(allocs[1].addr, N(n)))) = 0
                  /\ DOMAIN guest_mem = (DOMAIN MemBeforeCmdLine) \cup
                        {U32(Add(allocs[1].addr, N(j))) : j \in 0..n}
                  /\ guest_image.cmd_line = allocs[1].addr
                  /\ guest_image.cmd_line_len = N(n)
            /\ allocs[1].addr = Zero =>
                  /\ ret = -1
                  /\ Len(allocs) = 1
                  /\ guest_mem = MemBeforeCmdLine
                  /\ guest_image.cmd_line = Zero
                  /\ guest_image.cmd_line_len = Zero

\* "console=ttyS0" was copied to the address the tracker answered.
C9_Witness ==
    /\ pc = "cmdline_done"
    /\ cmdline = ConsoleCmdLine
    /\ allocs = <<[size |-> 14, addr |-> <<80, 0>>]>>
    /\ MemByte(guest_mem, <<80, 12>>) = 48
    /\ MemByte(guest_mem, <<80, 13>>) = 0

(***************************************************************************)
(* Claims about the whole sequence.                                        *)
(***************************************************************************)
\* C10: after load, relocation, boot structures and the thread-state
\* initializer, EAX = EBX = ECX = EDX = 0, the instruction pointer is
\* GuestImage.entry, which is the ELF entry point plus the relocation offset
\* (a uintptr_t sum), and ESI is GuestImage.boot_info, the guest-physical
\* address the boot-parameter block was written at; the initializer changes
\* no GuestImage field and no guest memory.
C10_ThreadStateAfterSequence ==
    /\ [](pc = "done" =>
            /\ regs.eax = Zero /\ regs.ebx = Zero
            /\ regs.ecx = Zero /\ regs.edx = Zero
            /\ regs.eip = guest_image.entry
            /\ regs.eip = U32(Add(elf.entry, guest_image.relocation_offset))
            /\ regs.esi = guest_image.boot_info
            /\ boot_block.written
            /\ regs.esi = boot_block.addr)
    /\ [][pc = "boot_built" =>
            UNCHANGED <<guest_image, guest_mem, boot_block>>]_vars

\* The sequence ended for a kernel that was relocated and patched.
C10_Witness ==
    /\ pc = "done"
    /\ guest_image.relocation_offset # Zero
    /\ Len(rel.patched) > 0
    /\ regs.esi = <<80, 0>>
    /\ regs.eip # elf.entry

(***************************************************************************)
(* Claims about the host-side resources of the segment loader.             *)
(***************************************************************************)
\* C11: while segments are loaded at most one guest page is host-mapped at a
\* time and each mapping and duplicated cap is released right after its
\* copy; and once vmm_load_guest_segment has returned (with success, with a
\* failed frame-cap lookup or with a failed host mapping) no host mapping, no
\* duplicated cap and no cap slot that it acquired is still held.
C11_ScopedMappingDiscipline ==
    /\ host.peak_mapped <= 1
    /\ pc # "fatal" => host.mapped = 0
    /\ pc = "segment" => host.dup_caps = 0
    /\ pc \in {"elf_headers", "elf_loaded", "elf_failed"} =>
           /\ host.mapped = 0
           /\ host.dup_caps = 0
           /\ host.slots = 0

\* What holds: a page is mapped only for its own copy, and a duplicated cap
\* outlives its pass of the loop only when the host mapping failed.
MappingsAreScoped ==
    /\ host.peak_mapped <= 1
    /\ pc # "fatal" => host.mapped = 0
    /\ pc = "segment" => host.dup_caps = 0
    /\ (pc = "elf_failed" /\ "error: failed to map page" \notin events) =>
           host.dup_caps = 0

(***************************************************************************)
(* Claims about the entries the relocation accepts.                        *)
(***************************************************************************)
\* the word the scan read at file position pos
WordRead(pos) == relocs.words[((pos - relocs.lead) \div 4) + 1]

\* an entry below link_vaddr was read last, and the scan aborted on it with
\* every earlier entry patched and nothing done for this one
AbortedOnRead(k) ==
    /\ pc = "fatal"
    /\ fatal # "none"
    /\ k = Len(rel.reads)
    /\ Len(rel.patched) = k - 1

\* C12: whenever the scan has read a nonzero entry below link_vaddr it has
\* aborted on that entry before touching guest memory for it, and so no
\* guest byte below load_paddr has been written by the relocation.
C12_LowVaddrAbortsNothingBelowLoad ==
    /\ \A k \in 1..Len(rel.reads) :
          (WordRead(rel.reads[k]) # Zero
             /\ Lt(WordRead(rel.reads[k]), U32(guest_image.link_vaddr)))
          => AbortedOnRead(k)
    /\ \A a \in DOMAIN guest_mem : Le(guest_image.load_paddr, a)

\* What holds: the abort on an entry below link_vaddr.
LowVaddrAborts ==
    \A k \in 1..Len(rel.reads) :
       (WordRead(rel.reads[k]) # Zero
          /\ Lt(WordRead(rel.reads[k]), U32(guest_image.link_vaddr)))
       => (AbortedOnRead(k) /\ fatal = "assert: vaddr >= link_vaddr")

(***************************************************************************)
(* Claims about the sizes of the memory-map entries.                       *)
(***************************************************************************)
EntriesNonEmpty(map) ==
    \A i \in 1..Len(map) :
        /\ map[i].size # Zero
        /\ Lt(map[i].addr, Add(map[i].addr, map[i].size))

\* C13: for every non-empty, sorted, non-overlapping list of RAM regions
\* within [0, 2^32), a last region that ends at 2^32 and regions of size
\* zero included, make_guest_e820_map passes its final assertion and every
\* entry of the map it returns has nonzero size.
C13_E820EntriesNonEmpty ==
    pc # "e820_call" =>
        /\ pc = "e820_done"
        /\ ~e820_out.abort
        /\ EntriesNonEmpty(e820_out.e820)

\* The same statement for lists of non-empty regions that end below 2^32.
E820EntriesNonEmptyInside ==
    (pc # "e820_call" /\ NonEmptyRegions(ram_regions)
        /\ Lt(RegionEnd(Last(ram_regions)), Two32)) =>
        /\ pc = "e820_done"
        /\ ~e820_out.abort
        /\ EntriesNonEmpty(e820_out.e820)

(***************************************************************************)
(* Claims about the frame of a segment load.                               *)
(***************************************************************************)
\* the guest addresses of segment k: [dest_addr, dest_addr + segment_size)
SegmentRange(k) ==
    LET h == elf.phdrs[k]
        dest == U32(Add(h.paddr, ld.guest_relocation_offset))
    IN  {U32(Add(dest, N(j))) : j \in 0..(h.memsz - 1)}

\* the headers vmm_load_guest_segment has been called for so far
SegmentsBegun ==
    {k \in 1..Len(elf.phdrs) :
        /\ Loadable(elf.phdrs[k])
        /\ k <= ld.i + (IF pc = "elf_headers" THEN 0 ELSE 1)}

\* the segment's end is where its last page ends, or it has no zero tail
EndsCleanly(h) ==
    \/ h.filesz = h.memsz
    \/ U32(Add(Add(h.paddr, ld.guest_relocation_offset), N(h.memsz)))[2]
           % PageSize = 0

\* C14: the segment loads change guest bytes only inside the ranges
\* [dest_addr, dest_addr + segment_size) of the segments loaded; every byte
\* outside them, the rest of the last page of a segment that ends mid-page
\* during the zero-fill included, is as it was.
C14_SegmentLoadFrame ==
    pc \in {"elf_headers", "segment", "elf_loaded", "elf_failed"} =>
        \A a \in DOMAIN guest_mem :
            guest_mem[a] # mem_fill =>
                \E k \in SegmentsBegun : a \in SegmentRange(k)

\* The same statement for ELFs whose zero-filled segments end with a page.
SegmentLoadFrameWhenEndsCleanly ==
    (pc \in {"elf_headers", "segment", "elf_loaded", "elf_failed"}
        /\ \A k \in SegmentsBegun : EndsCleanly(elf.phdrs[k])) =>
        \A a \in DOMAIN guest_mem :
            guest_mem[a] # mem_fill =>
                \E k \in SegmentsBegun : a \in SegmentRange(k)

(***************************************************************************)
(* Claims about the bounds of the relocation scan.                         *)
(***************************************************************************)
\* the k-th read of the scan was made at the offset relocs_size - 4 * k
ReadAtItsOffset(k) ==
    /\ rel.reads[k] = rel.relocs_size - 4 * k
    /\ rel.reads[k] >= 0
    /\ rel.reads[k] + 4 <= rel.relocs_size

\* C15: for every relocs file, an empty one and one without a zero word
\* included, the scan reads at most relocs_size / 4 words, each at its offset
\* relocs_size - 4 * (i + 1) inside [0, relocs_size), and patches a guest
\* word only for the value it read there.
C15_RelocScanBounded ==
    /\ Len(rel.reads) <= rel.relocs_size \div 4
    /\ \A k \in 1..Len(rel.reads) : ReadAtItsOffset(k)
    /\ Len(rel.patched) <= Len(rel.reads)
    /\ \A k \in 1..Len(rel.patched) :
          rel.patched[k] = RelocGuestPaddr(guest_image, WordRead(rel.reads[k]))

\* What holds: every read is inside the file and every patch uses the word
\* of its read, the scan makes at most two reads more than the file has
\* words, and the reads beyond that number are not at their offsets.
RelocScanReadsInsideFile ==
    /\ Len(rel.reads) <= (rel.relocs_size \div 4) + 2
    /\ rel.i <= (rel.relocs_size \div 4) + 1
    /\ \A k \in 1..Len(rel.reads) :
          /\ rel.reads[k] >= 0
          /\ rel.reads[k] + 4 <= rel.relocs_size
          /\ k <= rel.relocs_size \div 4 => ReadAtItsOffset(k)
    /\ Len(rel.patched) <= Len(rel.reads)
    /\ \A k \in 1..Len(rel.patched) :
          rel.patched[k] = RelocGuestPaddr(guest_image, WordRead(rel.reads[k]))

====
